---- MODULE Spec2Model ----
(***************************************************************************)
(* Model of the AR finger-snake game loop (src/components/SnakeCanvas.tsx) *)
(* and of the React state that drives it (App's gameState and score).      *)
(*                                                                         *)
(* React is modelled by three pieces of state: gameState is the phase of   *)
(* the last committed render (the value closed over by the current         *)
(* `animate` and seen by the lifecycle effect), pending is the value of a  *)
(* setGameState call that has not been rendered yet, and frames is the set *)
(* of callbacks registered with requestAnimationFrame, each with the phase *)
(* its `animate` closure captured.  Render commits pending and runs the    *)
(* lifecycle effect (cleanup, then body).                                  *)
(***************************************************************************)
EXTENDS Integers, Sequences, FiniteSets, TLC

\* ---- program constants (SnakeCanvas.tsx lines 12-18, 40) ----
SNAKE_RADIUS == 12
COLLISION_THRESHOLD == 30
INITIAL_SNAKE_LENGTH == 10
MIN_SEGMENT_DISTANCE == 8
SEGMENT_GROWTH == 4
SELF_COLLISION_GRACE_ZONES == 12
padding == 60
VideoWidth == 1280
VideoHeight == 720

\* ---- bounds of the model ----
MaxScore == 2       \* a tick that would eat is taken only while score < MaxScore
MaxStarts == 2      \* startCamera calls awaiting the camera at the same time
MaxHandles == 3     \* distinct requestAnimationFrame handles alive at once
NumTimes == 2       \* video timestamps are told apart modulo NumTimes
MaxInitLen == 15    \* longest trail a tick is started from in TickSpec / TrimSpec

\* ---- value domains ----
LOADING_MODEL == "LOADING_MODEL"
MENU == "MENU"
PLAYING == "PLAYING"
GAME_OVER == "GAME_OVER"
GameState == {LOADING_MODEL, MENU, PLAYING, GAME_OVER}
NONE == "NONE"

Pt(px, py) == [x |-> px, y |-> py]
null == Pt(-1, -1)                     \* the absent Point / Food
\* fingertip positions the tracker may report (landmark * canvas size)
TipA == Pt(124, 101)                   \* exactly 8 px from TipB, sqrt(65) from TipC
TipB == Pt(116, 101)                   \* 1 px from TipC
TipC == Pt(116, 100)
Tips == {TipA, TipB, TipC}
\* positions Math.random() may yield for the food
FoodNear == Pt(116, 130)               \* 29 px from TipB, exactly 30 from TipC, sqrt(905) from TipA
FoodFar == Pt(300, 300)
FoodSpots == {FoodNear, FoodFar}

\* Food without its colour: the colour is only drawn, never read by the logic.
spawnFood(width, height) ==
  {f \in FoodSpots : /\ f.x >= padding /\ f.x < width - padding
                     /\ f.y >= padding /\ f.y < height - padding}

\* getDistance returns sqrt(dx*dx + dy*dy); every use compares it with a
\* non-negative integer constant, so the model keeps the square.
getDistanceSq(p1, p2) ==
  LET dx == p1.x - p2.x
      dy == p1.y - p2.y
  IN dx * dx + dy * dy
\* variant: the gate of line 215 is not strict
distGreater_orEqual(p1, p2, r) == getDistanceSq(p1, p2) >= r * r

distGreater(p1, p2, r) == getDistanceSq(p1, p2) > r * r
\* variant: the comparison is not strict
distLess_orEqual(p1, p2, r) == getDistanceSq(p1, p2) <= r * r

distLess(p1, p2, r) == getDistanceSq(p1, p2) < r * r

VARIABLES
  gameState,        \* App's gameState as last rendered
  pending,          \* value of a setGameState call not rendered yet, or NONE
  appScore,         \* App's score: the last value handed to onScoreUpdate
  modelStatus,      \* "loading" | "ready" | "failed": initMediaPipe / handLandmarkerRef
  mounted,          \* the component is mounted (videoRef/canvasRef are set)
  hasStream,        \* videoRef.current.srcObject is set
  starts,           \* startCamera calls awaiting getUserMedia / play
  snakeBody,        \* snakeBodyRef.current, head first
  food,             \* foodRef.current, or null
  score,            \* scoreRef.current
  lastVideoTime,    \* lastVideoTimeRef.current
  isCameraOn,       \* isCameraOnRef.current
  requestRef,       \* requestRef.current: a handle, 0 when undefined
  frames,           \* registered frame callbacks: [id, closure]
  last              \* what the last step did (history, read by the properties only)

vars == <<gameState, pending, appScore, modelStatus, mounted, hasStream, starts,
          snakeBody, food, score, lastVideoTime, isCameraOn, requestRef, frames, last>>

\* the history record of one step
Ev(op) == [op |-> op, closure |-> NONE, paused |-> FALSE, dup |-> FALSE,
           detect |-> FALSE, tip |-> null, added |-> FALSE, hit |-> FALSE,
           checkedFood |-> FALSE, ate |-> FALSE, spawns |-> 0,
           reports |-> <<>>, draw |-> NONE, from |-> NONE, prevFood |-> null]

Init ==
  /\ gameState = LOADING_MODEL
  /\ pending = NONE
  /\ appScore = 0
  /\ modelStatus = "loading"
  /\ mounted = TRUE
  /\ hasStream = FALSE
  /\ starts = 0
  /\ snakeBody = <<>>
  /\ food = null
  /\ score = 0
  /\ lastVideoTime = -1
  /\ isCameraOn = TRUE
  /\ requestRef = 0
  /\ frames = {}
  /\ last = Ev("init")

\* ---- requestAnimationFrame / cancelAnimationFrame ----
freshHandle(fs, ref) ==
  CHOOSE h \in 1..MaxHandles :
    /\ h \notin ({f.id : f \in fs} \cup {ref})
    /\ \A k \in 1..MaxHandles :
         k \notin ({f.id : f \in fs} \cup {ref}) => h <= k
requestAnimationFrame(fs, ref, closure) ==
  fs \cup {[id |-> freshHandle(fs, ref), closure |-> closure]}
cancelAnimationFrame(fs, h) == {f \in fs : f.id # h}

\* setGameState: the last call before a render wins
setGameState(cur, s) == s


\* ---- animate, step 1: detect hands (lines 185-202) ----
\* now is video.currentTime, det the fingertip the landmarker would report
detectTip(now, lvt, det) == IF now # lvt THEN det ELSE null

\* ---- animate, step 2: update snake position (lines 204-229) ----
\* variant: no distance gate, every fingertip is added
shouldAddPoint_always(body, fingerTip) == TRUE

shouldAddPoint(body, fingerTip) ==
  IF body = <<>> THEN TRUE
  ELSE distGreater(fingerTip, body[1], MIN_SEGMENT_DISTANCE)

\* variant: the pop of line 227 is missing
controlLength_noPop(body, sc) == body

controlLength(body, sc) ==
  LET targetLength == INITIAL_SNAKE_LENGTH + sc * SEGMENT_GROWTH
  IN IF Len(body) > targetLength THEN SubSeq(body, 1, Len(body) - 1) ELSE body

updateSnake(body, fingerTip, sc) ==
  IF fingerTip = null THEN body
  ELSE IF shouldAddPoint(body, fingerTip)
       THEN controlLength(<<fingerTip>> \o body, sc)
       ELSE body

\* ---- animate: self collision (lines 235-247); body[i + 1] is index i ----
\* variant: a node at exactly SNAKE_RADIUS also collides
selfCollision_inclusive(body, fingerTip) ==
  /\ fingerTip # null
  /\ Len(body) > SELF_COLLISION_GRACE_ZONES
  /\ \E i \in SELF_COLLISION_GRACE_ZONES .. (Len(body) - 1) :
       getDistanceSq(fingerTip, body[i + 1]) <= SNAKE_RADIUS * SNAKE_RADIUS

selfCollision(body, fingerTip) ==
  /\ fingerTip # null
  /\ Len(body) > SELF_COLLISION_GRACE_ZONES
  /\ \E i \in SELF_COLLISION_GRACE_ZONES .. (Len(body) - 1) :
       distLess(fingerTip, body[i + 1], SNAKE_RADIUS)

\* ---- animate, step 3: collision with food (lines 251-265) ----
\* variant: only the fingertip is compared with the food
currentHead_tipOnly(body, fingerTip) == fingerTip

currentHead(body, fingerTip) ==
  IF fingerTip # null THEN fingerTip
  ELSE IF body # <<>> THEN body[1] ELSE null

foodChecked(body, fingerTip, fd) ==
  currentHead(body, fingerTip) # null /\ fd # null

eatsFood(body, fingerTip, fd) ==
  /\ foodChecked(body, fingerTip, fd)
  /\ distLess(currentHead(body, fingerTip), fd, COLLISION_THRESHOLD)

\* variant: only a GAME_OVER tick asks for the next frame
continueLoop_gameOverOnly(closure) == closure = GAME_OVER

\* animate, lines 156-159: the next frame is requested first, before any return
continueLoop(closure) == closure \in {PLAYING, GAME_OVER}

\* variant: the camera-off return is missing
pausedReturn_never(cameraOn) == FALSE

\* animate, lines 161-173: with the camera toggled off the tick draws the
\* "Camera Paused" placeholder and returns
pausedReturn(cameraOn) == ~cameraOn

\* the timestamps video.currentTime may show at a tick: the one of the last
\* detection again, or a later one
videoTimes(lvt) == {(lvt + 1) % NumTimes} \cup ({lvt} \ {-1})

\* ---- animate (lines 147-334), run by the frame callback f ----
animateBody(f, now, det) ==
  LET closure == f.closure
      fired == frames \ {f}
      again == continueLoop(closure)
      frames2 == IF again THEN requestAnimationFrame(fired, requestRef, closure) ELSE fired
      ref2 == IF again THEN freshHandle(fired, requestRef) ELSE requestRef
      dup == now = lastVideoTime
      fingerTip == detectTip(now, lastVideoTime, det)
      body2 == updateSnake(snakeBody, fingerTip, score)
      hit == selfCollision(body2, fingerTip)
      ate == eatsFood(body2, fingerTip, food)
  IN IF ~mounted
     THEN \* canvasRef.current is null: return at line 152
          /\ frames' = fired
          /\ last' = [Ev("animate") EXCEPT !.closure = closure]
          /\ UNCHANGED <<gameState, pending, appScore, modelStatus, mounted, hasStream,
                         starts, snakeBody, food, score, lastVideoTime, isCameraOn,
                         requestRef>>
     ELSE
       /\ frames' = frames2
       /\ requestRef' = ref2
       /\ UNCHANGED <<gameState, modelStatus, mounted, hasStream, starts, isCameraOn>>
       /\ IF pausedReturn(isCameraOn)
          THEN /\ last' = [Ev("animate") EXCEPT !.closure = closure, !.paused = TRUE,
                                                !.draw = "paused"]
               /\ UNCHANGED <<pending, appScore, snakeBody, food, score, lastVideoTime>>
          ELSE IF closure = GAME_OVER
          THEN /\ last' = [Ev("animate") EXCEPT !.closure = closure]
               /\ UNCHANGED <<pending, appScore, snakeBody, food, score, lastVideoTime>>
          ELSE
               /\ ate => score < MaxScore
               /\ lastVideoTime' = now
               /\ snakeBody' = body2
               /\ pending' = IF hit THEN setGameState(pending, GAME_OVER) ELSE pending
               /\ score' = IF ate THEN score + 1 ELSE score
               /\ appScore' = IF ate THEN score + 1 ELSE appScore
               /\ IF ate THEN food' \in spawnFood(VideoWidth, VideoHeight)
                         ELSE food' = food
               /\ last' = [Ev("animate") EXCEPT
                             !.closure = closure, !.dup = dup, !.detect = ~dup,
                             !.tip = fingerTip, !.added = (body2 # snakeBody),
                             !.hit = hit,
                             !.checkedFood = foodChecked(body2, fingerTip, food),
                             !.ate = ate, !.spawns = IF ate THEN 1 ELSE 0,
                             !.reports = IF ate THEN <<score + 1>> ELSE <<>>,
                             !.draw = "scene", !.prevFood = food]

animate ==
  \E f \in frames :
    \E now \in videoTimes(lastVideoTime) :
      \E det \in Tips \cup {null} :
        animateBody(f, now, det)

\* ---- initMediaPipe (lines 56-92) ----
initMediaPipeReady ==
  /\ modelStatus = "loading"
  /\ modelStatus' = "ready"
  /\ pending' = setGameState(pending, MENU)
  /\ last' = Ev("initMediaPipeReady")
  /\ UNCHANGED <<gameState, appScore, mounted, hasStream, starts, snakeBody, food,
                 score, lastVideoTime, isCameraOn, requestRef, frames>>

initMediaPipeFailed ==
  /\ modelStatus = "loading"
  /\ modelStatus' = "failed"
  /\ last' = Ev("initMediaPipeFailed")
  /\ UNCHANGED <<gameState, pending, appScore, mounted, hasStream, starts, snakeBody,
                 food, score, lastVideoTime, isCameraOn, requestRef, frames>>

\* ---- toggleCamera (lines 94-104); its button shows in PLAYING and GAME_OVER ----
toggleCamera ==
  /\ mounted
  /\ gameState \in {PLAYING, GAME_OVER}
  /\ hasStream
  /\ isCameraOn' = ~isCameraOn
  /\ last' = Ev("toggleCamera")
  /\ UNCHANGED <<gameState, pending, appScore, modelStatus, mounted, hasStream, starts,
                 snakeBody, food, score, lastVideoTime, requestRef, frames>>

\* variants of restartGame: back to the menu; the body is kept; the score is
\* not reported
restartGame_toMenu ==
  /\ mounted
  /\ gameState = GAME_OVER
  /\ snakeBody' = <<>>
  /\ score' = 0
  /\ appScore' = 0
  /\ pending' = setGameState(pending, MENU)
  /\ last' = [Ev("restartGame") EXCEPT !.reports = <<0>>, !.prevFood = food]
  /\ UNCHANGED <<gameState, modelStatus, mounted, hasStream, starts, food,
                 lastVideoTime, isCameraOn, requestRef, frames>>

restartGame_keepBody ==
  /\ mounted
  /\ gameState = GAME_OVER
  /\ score' = 0
  /\ appScore' = 0
  /\ pending' = setGameState(pending, PLAYING)
  /\ last' = [Ev("restartGame") EXCEPT !.reports = <<0>>, !.prevFood = food]
  /\ UNCHANGED <<gameState, modelStatus, mounted, hasStream, starts, food, snakeBody,
                 lastVideoTime, isCameraOn, requestRef, frames>>

restartGame_noReport ==
  /\ mounted
  /\ gameState = GAME_OVER
  /\ snakeBody' = <<>>
  /\ score' = 0
  /\ pending' = setGameState(pending, PLAYING)
  /\ last' = [Ev("restartGame") EXCEPT !.prevFood = food]
  /\ UNCHANGED <<gameState, modelStatus, mounted, hasStream, starts, food, appScore,
                 lastVideoTime, isCameraOn, requestRef, frames>>

\* ---- restartGame (lines 106-112); its button shows in GAME_OVER ----
restartGame ==
  /\ mounted
  /\ gameState = GAME_OVER
  /\ snakeBody' = <<>>
  /\ score' = 0
  /\ appScore' = 0
  /\ pending' = setGameState(pending, PLAYING)
  /\ last' = [Ev("restartGame") EXCEPT !.reports = <<0>>, !.prevFood = food]
  /\ UNCHANGED <<gameState, modelStatus, mounted, hasStream, starts, food,
                 lastVideoTime, isCameraOn, requestRef, frames>>

\* ---- startCamera (lines 114-144); its button shows in MENU ----
\* the click: the handler runs up to its first await (getUserMedia)
startCameraClick ==
  /\ mounted
  /\ gameState = MENU
  /\ starts < MaxStarts
  /\ starts' = starts + 1
  /\ last' = Ev("startCameraClick")
  /\ UNCHANGED <<gameState, pending, appScore, modelStatus, mounted, hasStream,
                 snakeBody, food, score, lastVideoTime, isCameraOn, requestRef, frames>>

\* getUserMedia and play() resolved: lines 126-139.  The two awaits are one
\* step: between them only srcObject is set, which nothing reads before the
\* phase is PLAYING.
startCameraGranted ==
  /\ starts > 0
  /\ mounted
  /\ starts' = starts - 1
  /\ hasStream' = TRUE
  /\ snakeBody' = <<>>
  /\ score' = 0
  /\ appScore' = 0
  /\ food' \in spawnFood(VideoWidth, VideoHeight)
  /\ pending' = setGameState(pending, PLAYING)
  /\ last' = [Ev("startCameraGranted") EXCEPT !.reports = <<0>>, !.spawns = 1,
                                              !.prevFood = food]
  /\ UNCHANGED <<gameState, modelStatus, mounted, lastVideoTime, isCameraOn,
                 requestRef, frames>>

\* variant: the reset of lines 129-131 is made before the camera is awaited
startCameraFailed_resets ==
  /\ starts > 0
  /\ starts' = starts - 1
  /\ \E acquired \in BOOLEAN :
       hasStream' = (hasStream \/ (acquired /\ mounted))
  /\ snakeBody' = <<>>
  /\ score' = 0
  /\ appScore' = 0
  /\ last' = [Ev("startCameraFailed") EXCEPT !.reports = <<0>>]
  /\ UNCHANGED <<gameState, pending, modelStatus, mounted, food,
                 lastVideoTime, isCameraOn, requestRef, frames>>

\* getUserMedia rejected (acquired = FALSE), play() rejected, or the component
\* was unmounted meanwhile (videoRef.current is null): the catch of line 140
startCameraFailed ==
  /\ starts > 0
  /\ starts' = starts - 1
  /\ \E acquired \in BOOLEAN :
       hasStream' = (hasStream \/ (acquired /\ mounted))
  /\ last' = Ev("startCameraFailed")
  /\ UNCHANGED <<gameState, pending, appScore, modelStatus, mounted, snakeBody, food,
                 score, lastVideoTime, isCameraOn, requestRef, frames>>

\* ---- React render of a requested gameState + lifecycle effect (lines 336-346) ----
Render ==
  /\ mounted
  /\ pending # NONE
  /\ pending' = NONE
  /\ gameState' = pending
  /\ last' = [Ev("Render") EXCEPT !.from = gameState]
  /\ IF pending = gameState
     THEN UNCHANGED <<requestRef, frames>>      \* same state: no effect re-run
     ELSE LET cleaned == IF requestRef # 0
                         THEN cancelAnimationFrame(frames, requestRef)
                         ELSE frames
          IN IF pending = PLAYING
             THEN /\ frames' = requestAnimationFrame(cleaned, requestRef, PLAYING)
                  /\ requestRef' = freshHandle(cleaned, requestRef)
             ELSE /\ frames' = cleaned
                  /\ UNCHANGED requestRef
  /\ UNCHANGED <<appScore, modelStatus, mounted, hasStream, starts, snakeBody, food,
                 score, lastVideoTime, isCameraOn>>

\* variant: the cleanup does not cancel the frame callback
Unmount_noCancel ==
  /\ mounted
  /\ mounted' = FALSE
  /\ last' = Ev("Unmount")
  /\ UNCHANGED <<gameState, pending, appScore, modelStatus, hasStream, starts, snakeBody,
                 food, score, lastVideoTime, isCameraOn, requestRef, frames>>

\* ---- component teardown: the cleanups of lines 86-90 and 343-345 ----
Unmount ==
  /\ mounted
  /\ mounted' = FALSE
  /\ frames' = IF requestRef # 0 THEN cancelAnimationFrame(frames, requestRef) ELSE frames
  /\ last' = Ev("Unmount")
  /\ UNCHANGED <<gameState, pending, appScore, modelStatus, hasStream, starts, snakeBody,
                 food, score, lastVideoTime, isCameraOn, requestRef>>

Next ==
  \/ initMediaPipeReady
  \/ initMediaPipeFailed
  \/ startCameraClick
  \/ startCameraGranted
  \/ startCameraFailed
  \/ Render
  \/ animate
  \/ toggleCamera
  \/ restartGame
  \/ Unmount

Spec == Init /\ [][Next]_vars

\* the browser runs a registered frame callback at its next frame
LiveSpec == Spec /\ WF_vars(animate)


\* a step that ran animate while mounted, and one that reached the game logic
isTick(ev) == ev.op = "animate"
isLogicTick(ev) == ev.op = "animate" /\ ev.draw = "scene"

\* C1: in every reachable state the trail is no longer than
\* INITIAL_SNAKE_LENGTH + score * SEGMENT_GROWTH.
C1_TrailLengthBound ==
  Len(snakeBody) <= INITIAL_SNAKE_LENGTH + score * SEGMENT_GROWTH

\* a tick has just inserted a node into a trail that was at its target length
\* with a score above 0, and the tail was dropped
C1_Witness ==
  /\ isLogicTick(last) /\ last.added
  /\ score > 0
  /\ Len(snakeBody) = INITIAL_SNAKE_LENGTH + score * SEGMENT_GROWTH

C3_FrozenAfterCollision ==
  [][((pending = GAME_OVER \/ gameState = GAME_OVER) /\ isTick(last'))
       => UNCHANGED <<snakeBody, score, food>>]_vars

\* C4: a tick whose self-collision check is true does not run the food step:
\* score and food are unchanged, the observer is not called, nothing is spawned.
C4_CollisionStopsTick ==
  [][(isTick(last') /\ last'.hit)
       => /\ score' = score
          /\ food' = food
          /\ last'.reports = <<>>
          /\ last'.spawns = 0]_vars

\* C5 as stated: a tick of the game logic without liveTip leaves score and
\* food unchanged and does not call the observer.
C5_NoTipNoFoodCheck ==
  [][(isLogicTick(last') /\ last'.tip = null)
       => /\ score' = score
          /\ food' = food
          /\ last'.reports = <<>>]_vars

\* C5 (amended): without liveTip the food check is made with the trail head
\* instead: such a tick eats (score + 1, observer called with it, one spawn)
\* exactly when the trail is not empty, food exists and trail[0] is less than
\* COLLISION_THRESHOLD from it; otherwise score and food are unchanged and the
\* observer is not called.
C5_HeadFallback ==
  [][(isLogicTick(last') /\ last'.tip = null)
       => IF /\ snakeBody # <<>>
             /\ food # null
             /\ getDistanceSq(snakeBody[1], food) < COLLISION_THRESHOLD * COLLISION_THRESHOLD
          THEN /\ score' = score + 1
               /\ last'.reports = <<score + 1>>
               /\ last'.spawns = 1
          ELSE /\ score' = score
               /\ food' = food
               /\ last'.reports = <<>>]_vars

\* a tick without liveTip has eaten the food with the trail head
C5_Witness ==
  isLogicTick(last) /\ last.tip = null /\ last.ate /\ snakeBody # <<>>

\* C6: a tick of the game logic that directly follows one, and sees the same
\* video timestamp, runs no detection and uses the previous tick's liveTip.
C6_DedupKeepsTip ==
  [][(isLogicTick(last) /\ isLogicTick(last') /\ last'.dup)
       => /\ ~last'.detect
          /\ last'.tip = last.tip]_vars

\* C7: restartGame clears trail and score and spawns a fresh food.
C7_RestartSpawnsFood ==
  [][last'.op = "restartGame"
       => /\ snakeBody' = <<>>
          /\ score' = 0
          /\ last'.spawns = 1]_vars

\* C8: whenever the rendered phase becomes PLAYING, the trail is empty and the
\* score is 0.
C8_FreshGame ==
  [][(gameState # PLAYING /\ gameState' = PLAYING)
       => (snakeBody' = <<>> /\ score' = 0)]_vars

\* a render has taken a finished game back to PLAYING, with an empty trail
C8_Witness ==
  /\ last.op = "Render" /\ last.from = GAME_OVER /\ gameState = PLAYING
  /\ snakeBody = <<>> /\ score = 0 /\ food # null

\* C9: the observer is called with the new score whenever scoreRef changes,
\* so the last reported value always equals scoreRef.
C9_ObserverInSync ==
  /\ [](appScore = score)
  /\ [][score' # score => last'.reports = <<score'>>]_vars

\* a tick has eaten for the second time and reported the new score
C9_Witness ==
  isLogicTick(last) /\ last.ate /\ score = 2 /\ last.reports = <<2>> /\ appScore = 2

\* C10: with the camera toggled off, a tick changes none of trail, score,
\* food, lastVideoTime and phase (rendered or requested), runs no detection
\* and draws only the paused placeholder.
C10_PausedTick ==
  [][(isTick(last') /\ mounted /\ ~isCameraOn)
       => /\ UNCHANGED <<snakeBody, score, food, lastVideoTime, gameState, pending>>
          /\ ~last'.detect
          /\ last'.draw = "paused"]_vars

\* a PLAYING tick ran with the camera off in the middle of a game
C10_Witness ==
  /\ isTick(last) /\ last.closure = PLAYING /\ last.paused
  /\ ~isCameraOn /\ snakeBody # <<>>

\* C11: a tick changes the trail only when liveTip is present and the trail is
\* empty or liveTip is more than MIN_SEGMENT_DISTANCE from trail[0]; then
\* liveTip is the new trail[0] and the older nodes follow in their order.  In
\* every other tick the trail is unchanged.
C11_TrailUpdateRule ==
  [][isTick(last') =>
       IF /\ isLogicTick(last')
          /\ last'.tip # null
          /\ \/ snakeBody = <<>>
             \/ getDistanceSq(last'.tip, snakeBody[1])
                  > MIN_SEGMENT_DISTANCE * MIN_SEGMENT_DISTANCE
       THEN /\ snakeBody' # <<>>
            /\ snakeBody'[1] = last'.tip
            /\ Len(snakeBody') <= Len(snakeBody) + 1
            /\ SubSeq(snakeBody', 2, Len(snakeBody'))
                 = SubSeq(snakeBody, 1, Len(snakeBody') - 1)
       ELSE snakeBody' = snakeBody]_vars

\* a tick saw liveTip exactly MIN_SEGMENT_DISTANCE from the head and left the
\* trail alone
C11_Witness ==
  /\ isLogicTick(last) /\ last.tip # null /\ ~last.added
  /\ snakeBody # <<>>
  /\ getDistanceSq(last.tip, snakeBody[1]) = MIN_SEGMENT_DISTANCE * MIN_SEGMENT_DISTANCE

\* ---- one tick from a given game position ----
\* TickSpec and TrimSpec run animate from positions in the middle of a game:
\* the phase is PLAYING, one frame callback is registered, and the trail holds
\* nodes the finger left elsewhere on the canvas (10 px apart, far from Tips),
\* with at most one node, at index j - 1, 12 px under TipC.
FarNode(i) == Pt(200 + 10 * i, 300)
NearNode == Pt(116, 112)       \* exactly 12 px from TipC, 11 from TipB, sqrt(185) from TipA
HarnessTrail(n, j) == [i \in 1..n |-> IF i = j THEN NearNode ELSE FarNode(i)]

HarnessInit(body, sc) ==
  /\ gameState = PLAYING
  /\ pending = NONE
  /\ appScore = sc
  /\ modelStatus = "ready"
  /\ mounted = TRUE
  /\ hasStream = TRUE
  /\ starts = 0
  /\ snakeBody = body
  /\ food \in spawnFood(VideoWidth, VideoHeight)
  /\ score = sc
  /\ lastVideoTime = 0
  /\ isCameraOn = TRUE
  /\ requestRef = 1
  /\ frames = {[id |-> 1, closure |-> PLAYING]}
  /\ last = Ev("init")

\* trails within the target length of their score, as the game keeps them
TickInit ==
  \E sc \in 0..MaxScore : \E n \in 0..MaxInitLen :
  \E j \in {0, 1} \cup ((SELF_COLLISION_GRACE_ZONES - 1) .. n) :
    /\ j <= n
    /\ n <= INITIAL_SNAKE_LENGTH + sc * SEGMENT_GROWTH
    /\ HarnessInit(HarnessTrail(n, j), sc)

\* any trail, also one longer than the target length of its score
TrimInit ==
  \E sc \in 0..MaxScore : \E n \in 0..MaxInitLen :
    HarnessInit(HarnessTrail(n, 0), sc)

TickNext == animate

TickSpec == TickInit /\ [][TickNext]_vars
TrimSpec == TrimInit /\ [][TickNext]_vars

nearOldNode(body, p) ==
  /\ Len(body) > SELF_COLLISION_GRACE_ZONES
  /\ \E i \in (SELF_COLLISION_GRACE_ZONES + 1) .. Len(body) :
       getDistanceSq(p, body[i]) < SNAKE_RADIUS * SNAKE_RADIUS

\* C13: a tick with liveTip requests GAME_OVER exactly when, after its trail
\* update, the trail is longer than SELF_COLLISION_GRACE_ZONES and a node at
\* index >= SELF_COLLISION_GRACE_ZONES is less than SNAKE_RADIUS from liveTip;
\* a tick without liveTip requests nothing.
C13_SelfCollisionRule ==
  [][isLogicTick(last') =>
       IF last'.tip # null /\ nearOldNode(snakeBody', last'.tip)
       THEN last'.hit /\ pending' = GAME_OVER
       ELSE ~last'.hit /\ pending' = pending]_vars

\* a tick on a trail longer than the grace window, with a node at index >= 12
\* exactly SNAKE_RADIUS from liveTip, requested nothing
C13_Witness ==
  /\ isLogicTick(last) /\ last.tip # null /\ ~last.hit /\ pending = NONE
  /\ Len(snakeBody) > SELF_COLLISION_GRACE_ZONES
  /\ \E i \in (SELF_COLLISION_GRACE_ZONES + 1) .. Len(snakeBody) :
       getDistanceSq(last.tip, snakeBody[i]) = SNAKE_RADIUS * SNAKE_RADIUS

\* C14: in a tick with liveTip present and food existing, the food is eaten
\* exactly when liveTip is less than COLLISION_THRESHOLD from it; eating adds
\* exactly 1 to the score and replaces the food by a spawn; no tick changes the
\* score by more than 1.
C14_FoodCollisionRule ==
  [][isTick(last') =>
       /\ score' \in {score, score + 1}
       /\ (isLogicTick(last') /\ last'.tip # null /\ food # null) =>
            IF getDistanceSq(last'.tip, food) < COLLISION_THRESHOLD * COLLISION_THRESHOLD
            THEN /\ score' = score + 1
                 /\ last'.spawns = 1
                 /\ food' \in spawnFood(VideoWidth, VideoHeight)
            ELSE /\ score' = score
                 /\ food' = food
                 /\ last'.spawns = 0]_vars

\* a tick had liveTip exactly COLLISION_THRESHOLD from the food and did not eat
C14_Witness ==
  /\ isLogicTick(last) /\ last.tip # null /\ ~last.ate
  /\ food # null /\ food = last.prevFood
  /\ getDistanceSq(last.tip, food) = COLLISION_THRESHOLD * COLLISION_THRESHOLD

\* C15: a startCamera call that fails (camera denied or not playable) changes
\* neither the phase, rendered or requested, nor trail, score and food, and
\* does not call the score observer: from MENU the game stays in MENU.
C15_CameraFailureAborts ==
  [][last'.op = "startCameraFailed"
       => /\ UNCHANGED <<gameState, pending, snakeBody, score, food, appScore>>
          /\ last'.reports = <<>>
          /\ last'.spawns = 0]_vars

\* the camera was refused in the menu, and the menu is still shown
C15_Witness ==
  /\ last.op = "startCameraFailed"
  /\ gameState = MENU /\ pending = NONE /\ starts = 0
  /\ snakeBody = <<>> /\ score = 0 /\ food = null

\* C16: for as long as the rendered phase is GAME_OVER a frame callback is
\* registered.
C16_GameOverKeepsTicking ==
  (gameState = GAME_OVER /\ mounted) => frames # {}

\* C17: at most one frame callback is registered at any time, none is
\* registered after teardown, and no tick runs after teardown.
C17_SingleTickNoDangling ==
  /\ [](Cardinality(frames) <= 1 /\ (~mounted => frames = {}))
  /\ [][~mounted => ~isTick(last')]_vars

\* the component was torn down in the middle of a game, while a frame callback
\* was registered
C17_Witness ==
  /\ last.op = "Unmount" /\ ~mounted
  /\ gameState = PLAYING /\ requestRef # 0 /\ snakeBody # <<>>
  /\ frames = {}

\* C18: while the rendered phase is PLAYING a frame callback is registered;
\* every PLAYING tick, whatever it does (paused, no liveTip, gated, eating),
\* ends with the next one registered, and runs the game logic whenever the
\* camera is on; so if the phase stays PLAYING, ticks run again and again.
C18_LoopNeverAborted ==
  /\ []((gameState = PLAYING /\ mounted) => frames # {})
  /\ [][(isTick(last') /\ mounted /\ last'.closure = PLAYING)
          => /\ frames' # {}
             /\ (isCameraOn => isLogicTick(last'))]_vars
  /\ (<>[](gameState = PLAYING /\ mounted) => []<><<animate>>_vars)
  /\ (<>[](gameState = PLAYING /\ mounted /\ isCameraOn)
        => []<><<animate /\ isLogicTick(last')>>_vars)

\* the camera, paused during a game, has just been switched back on, and a
\* frame callback is still registered
C18_Witness ==
  /\ last.op = "toggleCamera" /\ isCameraOn
  /\ gameState = PLAYING /\ pending = NONE /\ mounted
  /\ snakeBody # <<>> /\ frames # {}

\* C19: within a PLAYING session (the rendered phase is PLAYING before and
\* after the step, and no GAME_OVER has been requested) the score never
\* decreases and the trail is never cleared or shortened.
C19_NoResetInSession ==
  [][(gameState = PLAYING /\ gameState' = PLAYING /\ pending # GAME_OVER)
       => /\ score' >= score
          /\ Len(snakeBody') >= Len(snakeBody)]_vars

\* C20: every step that renders GAME_OVER after PLAYING, and every tick that
\* requests GAME_OVER, happens with score >= 1.
C20_NoGameOverAtScoreZero ==
  [][/\ (gameState = PLAYING /\ gameState' = GAME_OVER) => score' >= 1
     /\ (isTick(last') /\ last'.hit) => (score >= 1 /\ score' >= 1)]_vars

\* GAME_OVER has just been rendered, with a score of 1
C20_Witness ==
  /\ last.op = "Render" /\ last.from = PLAYING /\ gameState = GAME_OVER
  /\ score = 1 /\ Len(snakeBody) > SELF_COLLISION_GRACE_ZONES

\* C21: in every reachable state any two adjacent trail nodes are more than
\* MIN_SEGMENT_DISTANCE apart.
C21_NodeSpacing ==
  \A i \in 1 .. (Len(snakeBody) - 1) :
    getDistanceSq(snakeBody[i], snakeBody[i + 1])
      > MIN_SEGMENT_DISTANCE * MIN_SEGMENT_DISTANCE

\* a tick has just put a node in front of a head sqrt(65) px away, barely over
\* the gate, on a trail that is at its target length and has lost its tail
C21_Witness ==
  /\ isLogicTick(last) /\ last.added
  /\ Len(snakeBody) = INITIAL_SNAKE_LENGTH + score * SEGMENT_GROWTH
  /\ snakeBody[1] = last.tip
  /\ getDistanceSq(snakeBody[1], snakeBody[2])
       = MIN_SEGMENT_DISTANCE * MIN_SEGMENT_DISTANCE + 1

====
